---- MODULE Spec2Model ----
(***************************************************************************)
(* Model of the on-disk JSON document store of src/main.go: the Driver     *)
(* with its lock registry, and the operations New, Write, Read, ReadAll    *)
(* and Delete acting on a filesystem tree.                                 *)
(*                                                                         *)
(* A file name is a sequence of parts, <<"x", "json", "tmp">> standing for *)
(* "x.json.tmp"; the empty sequence is the empty string.  A path is a      *)
(* sequence of file names, relative to the process' working directory,     *)
(* which always exists.  Appending a suffix to a path string (path +       *)
(* ".json") appends a part to its last file name.                          *)
(*                                                                         *)
(* Every call of the os / ioutil / json libraries is one atomic step,      *)
(* except ioutil.WriteFile, which opens (creating or truncating) the file  *)
(* and then writes into it.  I/O errors arise from the state of the tree   *)
(* only (a missing parent, a directory where a file is expected, ...).     *)
(***************************************************************************)
EXTENDS Integers, Sequences, FiniteSets, TLC

VARIABLES
    opened,    \* TRUE once New has returned the Driver
    fs,        \* the filesystem: existing path -> [kind, data]
    mutexes,   \* Driver.mutexes: collection name -> lock handle
    guard,     \* holder of Driver.Mutex (a thread, or NoThread)
    locks,     \* locks[h]: holder of the sync.Mutex with handle h
    th,        \* th[t]: the call thread t is executing and its locals
    written,   \* history: the (collection, resource, value) passed to Write
    lastW,     \* history: the successful Write that was the last call made
    okW,       \* history: the (collection, resource) whose last Write returned nil
    calls      \* calls[t]: number of calls thread t has started

vars == <<opened, fs, mutexes, guard, locks, th, written, lastW, okW, calls>>

----------------------------------------------------------------------------
(* Bounds and input sets *)

MaxCalls == 2        \* calls made by the single caller of SpecSeq
MaxConcCalls == 2    \* calls made, in all, by the threads of Spec
MaxFailCalls == 3    \* calls made by the single caller of SpecFail
MaxLockCalls == 3    \* calls made, in all, by the threads of SpecLocks
MaxLiveCalls == 2    \* calls made, in all, by the threads of SpecLive

Threads == {1, 2, 3}
ConcThreads == {1, 2}
NoThread == 0
Nil == "nil"

\* file names
EmptyName == << >>
RootName == <<"data">>
\* collection names: "", "a", "b", "a/sub"
CEmpty == << >>
CA == << <<"a">> >>
CB == << <<"b">> >>
CASub == << <<"a">>, <<"sub">> >>
\* collection names that are the final and the temp path of resource "x" of
\* collection "a": "a/x.json", "a/x.json.tmp"
CAXJson == << <<"a">>, <<"x", "json">> >>
CAXTmp == << <<"a">>, <<"x", "json", "tmp">> >>
\* resource names: "", "x", "x.json", "sub"
RX == <<"x">>
RXJson == <<"x", "json">>
RSub == <<"sub">>

\* Go values: integers, a value json.Marshal rejects (a channel), and the
\* untouched target of a Read
IntVal(n) == [t |-> "int", n |-> n]
Chan == [t |-> "chan", n |-> 0]
NilVal == [t |-> "nil", n |-> 0]
EncValues == {IntVal(7), IntVal(12)}
Values == EncValues \cup {Chan}

SeqColls == {CEmpty, CA, CASub}
SeqRes == {EmptyName, RX, RXJson, RSub}
ConcColls == {CEmpty, CA}
ConcRes == {EmptyName, RX}
\* the resource of the specifications about one resource
WrColl == CA
WrRes == RX

----------------------------------------------------------------------------
(* Paths: filepath.Join and string suffixes *)

\* d.dir, the cleaned root directory of the store ("data")
Root == << RootName >>

\* filepath.Join(dir, collections): a collection name is a relative path
JoinColl(p, c) == p \o c

\* filepath.Join(dir, name): an empty element is ignored
Join(p, name) == IF name = EmptyName THEN p ELSE Append(p, name)

\* path + "." + ext, on the path string
WithExt(p, ext) == [p EXCEPT ![Len(p)] = Append(@, ext)]

Parent(p) == SubSeq(p, 1, Len(p) - 1)

IsPrefix(p, q) == Len(p) <= Len(q) /\ SubSeq(q, 1, Len(p)) = p

Under(p, q) == IsPrefix(p, q)      \* q is p or lies below p

Prefixes(p) == { SubSeq(p, 1, n) : n \in 0..Len(p) }

----------------------------------------------------------------------------
(* The filesystem *)

DirNode == [kind |-> "dir", data |-> << >>]
FileNode(b) == [kind |-> "file", data |-> b]

Exists(f, p) == p \in DOMAIN f
IsDir(f, p) == Exists(f, p) /\ f[p].kind = "dir"
IsFile(f, p) == Exists(f, p) /\ f[p].kind = "file"

\* a proper prefix of p is a regular file
ThroughFile(f, p) == \E q \in Prefixes(p) : q # p /\ IsFile(f, q)

\* restriction of f to the paths in S
Restrict(f, S) == [q \in S |-> f[q]]

\* os.Stat
osStat(f, p) ==
    IF Exists(f, p) THEN [err |-> Nil, kind |-> f[p].kind]
    ELSE IF ThroughFile(f, p) THEN [err |-> "ENOTDIR", kind |-> Nil]
    ELSE [err |-> "ENOENT", kind |-> Nil]

\* os.MkdirAll
MkdirAll(f, p) ==
    IF \E q \in Prefixes(p) : IsFile(f, q)
    THEN [err |-> "ENOTDIR", fs |-> f]
    ELSE [err |-> Nil,
          fs |-> [q \in DOMAIN f \cup Prefixes(p) |->
                    IF q \in DOMAIN f THEN f[q] ELSE DirNode]]

\* os.RemoveAll: removes p and everything below it; a missing p is no error
RemoveAll(f, p) ==
    IF ThroughFile(f, p)
    THEN [err |-> "ENOTDIR", fs |-> f]
    ELSE [err |-> Nil,
          fs |-> Restrict(f, { q \in DOMAIN f : ~Under(p, q) })]

\* the open(O_WRONLY|O_CREATE|O_TRUNC) of ioutil.WriteFile
OpenTrunc(f, p) ==
    IF IsDir(f, p) THEN [err |-> "EISDIR", fs |-> f]
    ELSE IF ThroughFile(f, p) THEN [err |-> "ENOTDIR", fs |-> f]
    ELSE IF ~IsDir(f, Parent(p)) THEN [err |-> "ENOENT", fs |-> f]
    ELSE [err |-> Nil,
          fs |-> [q \in DOMAIN f \cup {p} |->
                    IF q = p THEN FileNode(<< >>) ELSE f[q]]]

\* the write of ioutil.WriteFile, into the file opened at p: the bytes reach
\* the tree when the file is still linked at p
WriteOpened(f, p, b) ==
    IF IsFile(f, p) THEN [f EXCEPT ![p] = FileNode(b)] ELSE f

\* os.Rename of a regular file
Rename(f, old, new) ==
    IF ~Exists(f, old) THEN [err |-> "ENOENT", fs |-> f]
    ELSE IF old = new THEN [err |-> Nil, fs |-> f]
    ELSE IF ThroughFile(f, new) THEN [err |-> "ENOTDIR", fs |-> f]
    ELSE IF ~IsDir(f, Parent(new)) THEN [err |-> "ENOENT", fs |-> f]
    ELSE IF IsDir(f, new) THEN [err |-> "EISDIR", fs |-> f]
    ELSE [err |-> Nil,
          fs |-> [q \in (DOMAIN f \cup {new}) \ {old} |->
                    IF q = new THEN f[old] ELSE f[q]]]

\* ioutil.ReadFile
ReadFile(f, p) ==
    IF IsFile(f, p) THEN [err |-> Nil, data |-> f[p].data]
    ELSE IF IsDir(f, p) THEN [err |-> "EISDIR", data |-> << >>]
    ELSE IF ThroughFile(f, p) THEN [err |-> "ENOTDIR", data |-> << >>]
    ELSE [err |-> "ENOENT", data |-> << >>]

\* the entries of directory p
Children(f, p) == { q[Len(q)] : q \in { q \in DOMAIN f : Len(q) = Len(p) + 1 /\ Parent(q) = p } }

\* byte order of file names: the base names used are not prefixes of one
\* another, and "." sorts before every letter
BaseRank(b) ==
    CASE b = "a" -> 1 [] b = "b" -> 2 [] b = "data" -> 3
      [] b = "sub" -> 4 [] b = "x" -> 5 [] OTHER -> 6
ExtRank(e) == IF e = "json" THEN 1 ELSE 2
NameKey(n) ==
    LET d(i) == IF i + 1 <= Len(n) THEN ExtRank(n[i + 1]) ELSE 0
    IN  BaseRank(n[1]) * 27 + d(1) * 9 + d(2) * 3 + d(3)

RECURSIVE SortNames(_)
SortNames(S) ==
    IF S = {} THEN << >>
    ELSE LET m == CHOOSE n \in S : \A k \in S : NameKey(n) <= NameKey(k)
         IN  <<m>> \o SortNames(S \ {m})

\* ioutil.ReadDir: the entries sorted by file name; nil when p is not a
\* directory that can be listed
ReadDir(f, p) == IF IsDir(f, p) THEN SortNames(Children(f, p)) ELSE << >>

----------------------------------------------------------------------------
(* JSON encoding of the values *)

Digit(d) == CASE d = 0 -> "0" [] d = 1 -> "1" [] d = 2 -> "2" [] d = 3 -> "3"
              [] d = 4 -> "4" [] d = 5 -> "5" [] d = 6 -> "6" [] d = 7 -> "7"
              [] d = 8 -> "8" [] OTHER -> "9"
DigitVal(c) == CASE c = "0" -> 0 [] c = "1" -> 1 [] c = "2" -> 2 [] c = "3" -> 3
              [] c = "4" -> 4 [] c = "5" -> 5 [] c = "6" -> 6 [] c = "7" -> 7
              [] c = "8" -> 8 [] OTHER -> 9
IsDigit(c) == c \in {"0", "1", "2", "3", "4", "5", "6", "7", "8", "9"}

RECURSIVE Digits(_)
Digits(n) == IF n < 10 THEN <<Digit(n)>> ELSE Append(Digits(n \div 10), Digit(n % 10))

\* json.MarshalIndent(v, "", "\t")
MarshalIndent(v) ==
    IF v.t = "int" THEN [err |-> Nil, b |-> Digits(v.n)]
    ELSE [err |-> "json: unsupported type", b |-> << >>]

RECURSIVE Number(_)
Number(b) == IF Len(b) = 0 THEN 0
             ELSE 10 * Number(SubSeq(b, 1, Len(b) - 1)) + DigitVal(b[Len(b)])

RECURSIVE TrimSpace(_)
TrimSpace(b) == IF Len(b) > 0 /\ b[Len(b)] = "\n"
                THEN TrimSpace(SubSeq(b, 1, Len(b) - 1)) ELSE b

\* json.Unmarshal into a target of the value's type
Unmarshal(b) ==
    LET t == TrimSpace(b)
    IN  IF Len(t) = 0 THEN [err |-> "unexpected end of JSON input", val |-> NilVal]
        ELSE IF (\A i \in 1..Len(t) : IsDigit(t[i])) /\ (Len(t) = 1 \/ t[1] # "0")
        THEN [err |-> Nil, val |-> IntVal(Number(t))]
        ELSE [err |-> "invalid character", val |-> NilVal]

\* the bytes Write stores for an encodable value
Encoded(v) == Append(MarshalIndent(v).b, "\n")

----------------------------------------------------------------------------
(* The paths of Write, and the store a completed Write leaves *)

\* dir := filepath.Join(d.dir, collections)
CollDir(c) == JoinColl(Root, c)

\* fnlPath := filepath.Join(dir, resource+".json")
FnlPath(c, r) == Join(CollDir(c), Append(r, "json"))

\* a Write that writes the final file in place
InPlace(c, r) == FnlPath(c, r)

\* tmpPath := fnlPath + ".tmp"
TmpPath(c, r) == WithExt(FnlPath(c, r), "tmp")

\* the filesystem after a Write(c, r, v) that ran alone and returned nil
WriteDone(f, c, r, v) ==
    LET f1 == MkdirAll(f, CollDir(c)).fs
        f2 == OpenTrunc(f1, TmpPath(c, r)).fs
        f3 == WriteOpened(f2, TmpPath(c, r), Encoded(v))
    IN  Rename(f3, TmpPath(c, r), FnlPath(c, r)).fs

RECURSIVE Replay(_, _)
Replay(f, h) ==
    IF h = << >> THEN f
    ELSE Replay(WriteDone(f, Head(h).c, Head(h).r, Head(h).v), Tail(h))

----------------------------------------------------------------------------
(* The Driver *)

EmptyMap == [c \in {} |-> 0]
NoWrite == [c |-> CEmpty, r |-> EmptyName, v |-> NilVal]

IdleThread ==
    [pc |-> "idle", op |-> "none", c |-> CEmpty, r |-> EmptyName, v |-> NilVal,
     m |-> 0, err |-> Nil, out |-> NilVal, b |-> << >>, target |-> << >>,
     files |-> << >>, recs |-> << >>,
     fs0 |-> EmptyMap, mx0 |-> EmptyMap, after |-> NoWrite]

InCall(t) == th[t].pc \notin {"idle", "ret"}

\* the working directory without the store, and with an empty store
NoStore == [p \in {<< >>} |-> DirNode]
EmptyStore == [p \in {<< >>, Root} |-> DirNode]

\* the Writes of earlier runs of the program on the store
W(c, r, v) == [c |-> c, r |-> r, v |-> v]
SeqHistories ==
    { << >>,
      << W(CA, RX, IntVal(7)) >>,
      << W(CASub, RX, IntVal(12)), W(CA, RSub, IntVal(7)) >> }
ConcHistories == { << >>, << W(CA, RX, IntVal(7)) >> }
FailHistories == { << >>, << W(CAXJson, RX, IntVal(12)) >> }

\* the store before New: absent, or left by an earlier run
InitWith(H) ==
    /\ opened = FALSE
    /\ \E h \in H :
         /\ fs \in (IF h = << >> THEN {NoStore} ELSE {}) \cup {Replay(EmptyStore, h)}
         /\ written = { <<h[i].c, h[i].r, h[i].v>> : i \in 1..Len(h) }
         /\ okW = { <<h[i].c, h[i].r>> : i \in 1..Len(h) }
    /\ mutexes = EmptyMap
    /\ guard = NoThread
    /\ locks = << >>
    /\ th = [t \in Threads |-> IdleThread]
    /\ lastW = NoWrite
    /\ calls = [t \in Threads |-> 0]

Init == InitWith(ConcHistories)
InitSeq == InitWith(SeqHistories)
InitFail == InitWith(FailHistories)

\* a New that creates the store afresh
NewAfresh ==
    /\ ~opened
    /\ opened' = TRUE
    /\ mutexes' = EmptyMap
    /\ fs' = MkdirAll(RemoveAll(fs, Root).fs, Root).fs
    /\ UNCHANGED <<guard, locks, th, written, lastW, okW, calls>>

\* New(dir, options)
New ==
    /\ ~opened
    /\ opened' = TRUE
    /\ mutexes' = EmptyMap
    /\ fs' = IF osStat(fs, Root).err = Nil THEN fs ELSE MkdirAll(fs, Root).fs
    /\ UNCHANGED <<guard, locks, th, written, lastW, okW, calls>>

\* a caller enters an operation: its locals are fresh, and the history
\* records the state it starts from
Begin(t, op, c, r, v, err) ==
    /\ opened
    /\ ~InCall(t)
    /\ calls' = [calls EXCEPT ![t] = @ + 1]
    /\ lastW' = NoWrite
    /\ okW' = okW
    /\ th' = [u \in Threads |->
                IF u = t
                THEN [IdleThread EXCEPT
                        !.pc = IF err # Nil THEN "ret"
                               ELSE CASE op = "Write" -> "gm_lock"
                                      [] op = "Delete" -> "gm_lock"
                                      [] op = "Read" -> "r_stat"
                                      [] OTHER -> "ra_stat",
                        !.op = op, !.c = c, !.r = r, !.v = v, !.err = err,
                        !.fs0 = fs, !.mx0 = mutexes,
                        !.after = IF \A w \in Threads \ {t} : ~InCall(w)
                                  THEN lastW ELSE NoWrite]
                ELSE [th[u] EXCEPT !.after = NoWrite]]

\* argument checks that let an empty resource name pass
CheckCollectionOnly(c, r) == IF c = CEmpty THEN "missing collection" ELSE Nil

\* the argument checks of Write
WriteCheck(c, r) ==
    IF c = CEmpty THEN "missing collection"
    ELSE IF r = EmptyName THEN "missing resource"
    ELSE Nil

\* the argument checks of Read
ReadCheck(c, r) ==
    IF c = CEmpty THEN "missing collection"
    ELSE IF r = EmptyName THEN "missing resource"
    ELSE Nil

\* the argument check of ReadAll
ReadAllCheck(c) == IF c = CEmpty THEN "missing collection" ELSE Nil

\* Delete checks nothing
DeleteCheck(c, r) == Nil

CallWrite(t, c, r, v) ==
    /\ Begin(t, "Write", c, r, v, WriteCheck(c, r))
    /\ written' = written \cup {<<c, r, v>>}
    /\ UNCHANGED <<opened, fs, mutexes, guard, locks>>

CallRead(t, c, r) ==
    /\ Begin(t, "Read", c, r, NilVal, ReadCheck(c, r))
    /\ UNCHANGED <<opened, fs, mutexes, guard, locks, written>>

CallReadAll(t, c) ==
    /\ Begin(t, "ReadAll", c, EmptyName, NilVal, ReadAllCheck(c))
    /\ UNCHANGED <<opened, fs, mutexes, guard, locks, written>>

CallDelete(t, c, r) ==
    /\ Begin(t, "Delete", c, r, NilVal, DeleteCheck(c, r))
    /\ UNCHANGED <<opened, fs, mutexes, guard, locks, written>>

\* thread t moves on with its locals changed to rec
Step(t, rec) == th' = [th EXCEPT ![t] = rec]

----------------------------------------------------------------------------
(* getOrCreateMutext and the collection lock *)

\* d.Mutex.Lock()
GmLock(t) ==
    /\ th[t].pc = "gm_lock"
    /\ guard = NoThread
    /\ guard' = t
    /\ Step(t, [th[t] EXCEPT !.pc = "gm_get"])
    /\ UNCHANGED <<opened, fs, mutexes, locks, written, lastW, okW, calls>>

\* a registry that creates a new sync.Mutex at every lookup
AlwaysCreate(mx, lk, c) ==
    [m |-> Len(lk) + 1,
     mutexes |-> [k \in DOMAIN mx \cup {c} |-> IF k = c THEN Len(lk) + 1 ELSE mx[k]],
     locks |-> Append(lk, NoThread)]

\* m, ok := d.mutexes[collections]; if !ok { m = &sync.Mutex{}; ... }: the
\* handle returned for name c, and the registry and the mutexes after it
GetOrCreate(mx, lk, c) ==
    IF c \in DOMAIN mx
    THEN [m |-> mx[c], mutexes |-> mx, locks |-> lk]
    ELSE [m |-> Len(lk) + 1,
          mutexes |-> [k \in DOMAIN mx \cup {c} |-> IF k = c THEN Len(lk) + 1 ELSE mx[k]],
          locks |-> Append(lk, NoThread)]

\* the body of getOrCreateMutext, under d.Mutex
GmGet(t) ==
    /\ th[t].pc = "gm_get"
    /\ mutexes' = GetOrCreate(mutexes, locks, th[t].c).mutexes
    /\ locks' = GetOrCreate(mutexes, locks, th[t].c).locks
    /\ Step(t, [th[t] EXCEPT !.pc = "gm_unlock",
                             !.m = GetOrCreate(mutexes, locks, th[t].c).m])
    /\ UNCHANGED <<opened, fs, guard, written, lastW, okW, calls>>

\* a getOrCreateMutext that returns with d.Mutex still held
GmReturnLocked(t) ==
    /\ th[t].pc = "gm_unlock"
    /\ Step(t, [th[t] EXCEPT !.pc = "lock"])
    /\ UNCHANGED <<opened, fs, mutexes, guard, locks, written, lastW, okW, calls>>

\* the deferred d.Mutex.Unlock()
GmUnlock(t) ==
    /\ th[t].pc = "gm_unlock"
    /\ guard' = NoThread
    /\ Step(t, [th[t] EXCEPT !.pc = "lock"])
    /\ UNCHANGED <<opened, fs, mutexes, locks, written, lastW, okW, calls>>

\* a Lock that does not wait for the holder
LockNoWait(t) ==
    /\ th[t].pc = "lock"
    /\ locks' = [locks EXCEPT ![th[t].m] = t]
    /\ Step(t, [th[t] EXCEPT !.pc = IF th[t].op = "Write" THEN "w_mkdir" ELSE "d_stat"])
    /\ UNCHANGED <<opened, fs, mutexes, guard, written, lastW, okW, calls>>

\* mutex.Lock()
Lock(t) ==
    /\ th[t].pc = "lock"
    /\ locks[th[t].m] = NoThread
    /\ locks' = [locks EXCEPT ![th[t].m] = t]
    /\ Step(t, [th[t] EXCEPT !.pc = IF th[t].op = "Write" THEN "w_mkdir" ELSE "d_stat"])
    /\ UNCHANGED <<opened, fs, mutexes, guard, written, lastW, okW, calls>>

\* the deferred mutex.Unlock(), and the return of Write or Delete
Unlock(t) ==
    /\ th[t].pc = "unlock"
    /\ locks' = [locks EXCEPT ![th[t].m] = NoThread]
    /\ Step(t, [th[t] EXCEPT !.pc = "ret"])
    /\ lastW' = IF /\ th[t].op = "Write"
                   /\ th[t].err = Nil
                   /\ \A u \in Threads \ {t} : ~InCall(u)
                THEN [c |-> th[t].c, r |-> th[t].r, v |-> th[t].v]
                ELSE NoWrite
    /\ okW' = IF th[t].op # "Write" THEN okW
              ELSE IF th[t].err = Nil THEN okW \cup {<<th[t].c, th[t].r>>}
              ELSE okW \ {<<th[t].c, th[t].r>>}
    /\ UNCHANGED <<opened, fs, mutexes, guard, written, calls>>

----------------------------------------------------------------------------
(* Write *)

\* os.MkdirAll(dir, 0755)
WMkdir(t) ==
    LET res == MkdirAll(fs, CollDir(th[t].c))
    IN  /\ th[t].pc = "w_mkdir"
        /\ fs' = res.fs
        /\ Step(t, IF res.err # Nil
                   THEN [th[t] EXCEPT !.pc = "unlock", !.err = res.err]
                   ELSE [th[t] EXCEPT !.pc = "w_open"])
        /\ UNCHANGED <<opened, mutexes, guard, locks, written, lastW, okW, calls>>

\* a Write that opens the final file and then encodes into it
WOpenFinal(t) ==
    LET enc == MarshalIndent(th[t].v)
        res == OpenTrunc(fs, FnlPath(th[t].c, th[t].r))
    IN  /\ th[t].pc = "w_open"
        /\ fs' = res.fs
        /\ Step(t, IF res.err # Nil
                   THEN [th[t] EXCEPT !.pc = "unlock", !.err = res.err]
                   ELSE IF enc.err # Nil
                   THEN [th[t] EXCEPT !.pc = "unlock", !.err = enc.err]
                   ELSE [th[t] EXCEPT !.pc = "unlock",
                                      !.b = Append(enc.b, "\n")])
        /\ UNCHANGED <<opened, mutexes, guard, locks, written, lastW, okW, calls>>

\* json.MarshalIndent, the trailing newline, and the first half of
\* ioutil.WriteFile(tmpPath, b, 0644): the file is created or truncated
WOpen(t) ==
    LET enc == MarshalIndent(th[t].v)
        res == OpenTrunc(fs, TmpPath(th[t].c, th[t].r))
    IN  /\ th[t].pc = "w_open"
        /\ IF enc.err # Nil
           THEN /\ fs' = fs
                /\ Step(t, [th[t] EXCEPT !.pc = "unlock", !.err = enc.err])
           ELSE /\ fs' = res.fs
                /\ Step(t, IF res.err # Nil
                           THEN [th[t] EXCEPT !.pc = "unlock", !.err = res.err]
                           ELSE [th[t] EXCEPT !.pc = "w_write",
                                              !.b = Append(enc.b, "\n")])
        /\ UNCHANGED <<opened, mutexes, guard, locks, written, lastW, okW, calls>>

\* the second half of ioutil.WriteFile: the bytes are written
WWrite(t) ==
    /\ th[t].pc = "w_write"
    /\ fs' = WriteOpened(fs, TmpPath(th[t].c, th[t].r), th[t].b)
    /\ Step(t, [th[t] EXCEPT !.pc = "w_rename"])
    /\ UNCHANGED <<opened, mutexes, guard, locks, written, lastW, okW, calls>>

\* a Write that copies the temp file to the final path and leaves it
WRenameCopy(t) ==
    LET tmp == TmpPath(th[t].c, th[t].r)
        fnl == FnlPath(th[t].c, th[t].r)
        res == Rename(fs, tmp, fnl)
    IN  /\ th[t].pc = "w_rename"
        /\ fs' = IF res.err = Nil /\ tmp # fnl
                 THEN [q \in DOMAIN res.fs \cup {tmp} |->
                         IF q = tmp THEN fs[tmp] ELSE res.fs[q]]
                 ELSE res.fs
        /\ Step(t, [th[t] EXCEPT !.pc = "unlock", !.err = res.err])
        /\ UNCHANGED <<opened, mutexes, guard, locks, written, lastW, okW, calls>>

\* return os.Rename(tmpPath, fnlPath)
WRename(t) ==
    LET res == Rename(fs, TmpPath(th[t].c, th[t].r), FnlPath(th[t].c, th[t].r))
    IN  /\ th[t].pc = "w_rename"
        /\ fs' = res.fs
        /\ Step(t, [th[t] EXCEPT !.pc = "unlock", !.err = res.err])
        /\ UNCHANGED <<opened, mutexes, guard, locks, written, lastW, okW, calls>>

----------------------------------------------------------------------------
(* stat, Read and ReadAll *)

\* stat(path): os.Stat(path), and os.Stat(path + ".json") when path does
\* not exist
stat(f, path) ==
    LET s == osStat(f, path)
    IN  IF s.err = "ENOENT" THEN osStat(f, WithExt(path, "json")) ELSE s

\* record := filepath.Join(d.dir, collections)
ReadRecord(c, r) == JoinColl(Root, c)

\* stat(record)
RStat(t) ==
    LET s == stat(fs, ReadRecord(th[t].c, th[t].r))
    IN  /\ th[t].pc = "r_stat"
        /\ Step(t, IF s.err # Nil
                   THEN [th[t] EXCEPT !.pc = "ret", !.err = s.err]
                   ELSE [th[t] EXCEPT !.pc = "r_read"])
        /\ UNCHANGED <<opened, fs, mutexes, guard, locks, written, lastW, okW, calls>>

\* ioutil.ReadFile(record + ".json") and json.Unmarshal(b, &v)
RRead(t) ==
    LET rd == ReadFile(fs, WithExt(ReadRecord(th[t].c, th[t].r), "json"))
        dec == Unmarshal(rd.data)
    IN  /\ th[t].pc = "r_read"
        /\ Step(t, IF rd.err # Nil
                   THEN [th[t] EXCEPT !.pc = "ret", !.err = rd.err]
                   ELSE [th[t] EXCEPT !.pc = "ret", !.err = dec.err,
                                      !.out = dec.val])
        /\ UNCHANGED <<opened, fs, mutexes, guard, locks, written, lastW, okW, calls>>

\* stat(dir) of ReadAll
RAStat(t) ==
    LET s == stat(fs, CollDir(th[t].c))
    IN  /\ th[t].pc = "ra_stat"
        /\ Step(t, IF s.err # Nil
                   THEN [th[t] EXCEPT !.pc = "ret", !.err = s.err]
                   ELSE [th[t] EXCEPT !.pc = "ra_list"])
        /\ UNCHANGED <<opened, fs, mutexes, guard, locks, written, lastW, okW, calls>>

\* files, _ := ioutil.ReadDir(dir)
RAList(t) ==
    /\ th[t].pc = "ra_list"
    /\ Step(t, [th[t] EXCEPT !.pc = "ra_read",
                             !.files = ReadDir(fs, CollDir(th[t].c))])
    /\ UNCHANGED <<opened, fs, mutexes, guard, locks, written, lastW, okW, calls>>

\* one iteration of the loop over files, or its end
RARead(t) ==
    /\ th[t].pc = "ra_read"
    /\ IF th[t].files = << >>
       THEN Step(t, [th[t] EXCEPT !.pc = "ret"])
       ELSE LET rd == ReadFile(fs, Join(CollDir(th[t].c), Head(th[t].files)))
            IN  Step(t, IF rd.err # Nil
                        THEN [th[t] EXCEPT !.pc = "ret", !.err = rd.err,
                                           !.recs = << >>]
                        ELSE [th[t] EXCEPT !.files = Tail(@),
                                           !.recs = Append(@, rd.data)])
    /\ UNCHANGED <<opened, fs, mutexes, guard, locks, written, lastW, okW, calls>>

----------------------------------------------------------------------------
(* Delete *)

\* path := filepath.Join(collections, resource); dir := filepath.Join(d.dir, path)
DeleteDir(c, r) == JoinColl(Root, Join(c, r))

\* a switch whose directory case removes dir + ".json" as well
AlwaysJson(f, dir) ==
    LET s == stat(f, dir)
    IN  IF s.err # Nil
        THEN [err |-> "unable to find file or directory", target |-> << >>]
        ELSE [err |-> Nil, target |-> WithExt(dir, "json")]

\* the switch on stat(dir): what Delete removes, or its error
DeleteTarget(f, dir) ==
    LET s == stat(f, dir)
    IN  IF s.err # Nil
        THEN [err |-> "unable to find file or directory", target |-> << >>]
        ELSE IF s.kind = "dir" THEN [err |-> Nil, target |-> dir]
        ELSE [err |-> Nil, target |-> WithExt(dir, "json")]

\* a Delete whose not-found case returns with the collection lock held
DStatNoDefer(t) ==
    LET d == DeleteTarget(fs, DeleteDir(th[t].c, th[t].r))
    IN  /\ th[t].pc = "d_stat"
        /\ Step(t, IF d.err # Nil
                   THEN [th[t] EXCEPT !.pc = "ret", !.err = d.err]
                   ELSE [th[t] EXCEPT !.pc = "d_remove", !.target = d.target])
        /\ UNCHANGED <<opened, fs, mutexes, guard, locks, written, lastW, okW, calls>>

\* stat(dir) and the choice of the case
DStat(t) ==
    LET d == DeleteTarget(fs, DeleteDir(th[t].c, th[t].r))
    IN  /\ th[t].pc = "d_stat"
        /\ Step(t, IF d.err # Nil
                   THEN [th[t] EXCEPT !.pc = "unlock", !.err = d.err]
                   ELSE [th[t] EXCEPT !.pc = "d_remove", !.target = d.target])
        /\ UNCHANGED <<opened, fs, mutexes, guard, locks, written, lastW, okW, calls>>

\* return os.RemoveAll(...)
DRemove(t) ==
    LET res == RemoveAll(fs, th[t].target)
    IN  /\ th[t].pc = "d_remove"
        /\ fs' = res.fs
        /\ Step(t, [th[t] EXCEPT !.pc = "unlock", !.err = res.err])
        /\ UNCHANGED <<opened, mutexes, guard, locks, written, lastW, okW, calls>>

----------------------------------------------------------------------------
(* Specifications *)

Proceed(t) ==
    \/ GmLock(t) \/ GmGet(t) \/ GmUnlock(t) \/ Lock(t) \/ Unlock(t)
    \/ WMkdir(t) \/ WOpen(t) \/ WWrite(t) \/ WRename(t)
    \/ RStat(t) \/ RRead(t)
    \/ RAStat(t) \/ RAList(t) \/ RARead(t)
    \/ DStat(t) \/ DRemove(t)

\* one caller, making MaxCalls calls one after the other
NextSeq ==
    \/ New
    \/ /\ calls[1] < MaxCalls
       /\ \/ \E c \in SeqColls, r \in SeqRes, v \in Values : CallWrite(1, c, r, v)
          \/ \E c \in SeqColls, r \in SeqRes : CallRead(1, c, r)
          \/ \E c \in SeqColls : CallReadAll(1, c)
          \/ \E c \in SeqColls, r \in SeqRes : CallDelete(1, c, r)
    \/ Proceed(1)

SpecSeq == InitSeq /\ [][NextSeq]_vars

\* two concurrent callers, making MaxConcCalls calls in all
Next ==
    \/ New
    \/ \E t \in ConcThreads :
        \/ /\ calls[1] + calls[2] < MaxConcCalls
           /\ \/ \E c \in ConcColls, r \in ConcRes, v \in EncValues : CallWrite(t, c, r, v)
              \/ \E c \in ConcColls, r \in ConcRes : CallRead(t, c, r)
              \/ \E c \in ConcColls : CallReadAll(t, c)
              \/ \E c \in ConcColls, r \in ConcRes : CallDelete(t, c, r)
        \/ Proceed(t)

Spec == Init /\ [][Next]_vars

\* two concurrent callers of the four operations on one collection, making
\* MaxLiveCalls calls in all and scheduled fairly: a thread that can take
\* its next step takes it
NextLive ==
    \/ New
    \/ \E t \in ConcThreads :
        \/ /\ calls[1] + calls[2] < MaxLiveCalls
           /\ \/ \E v \in {IntVal(7), Chan} : CallWrite(t, WrColl, WrRes, v)
              \/ CallRead(t, WrColl, WrRes)
              \/ CallReadAll(t, WrColl)
              \/ \E r \in {EmptyName, WrRes} : CallDelete(t, WrColl, r)
        \/ Proceed(t)

SpecLive ==
    /\ Init
    /\ [][NextLive]_vars
    /\ \A t \in ConcThreads : WF_vars(Proceed(t))

\* one caller, writing and deleting under names that put a directory where
\* Write expects a file, and a file where it expects a directory
FailColls == {CA, CAXJson, CAXTmp}
NextFail ==
    \/ New
    \/ /\ calls[1] < MaxFailCalls
       /\ \/ \E c \in FailColls, v \in Values : CallWrite(1, c, RX, v)
          \/ \E c \in FailColls, r \in {EmptyName, RX} : CallDelete(1, c, r)
    \/ GmLock(1) \/ GmGet(1) \/ GmUnlock(1) \/ Lock(1) \/ Unlock(1)
    \/ WMkdir(1) \/ WOpen(1) \/ WWrite(1) \/ WRename(1)
    \/ DStat(1) \/ DRemove(1)

SpecFail == InitFail /\ [][NextFail]_vars

\* two concurrent callers writing and deleting one resource in each of two
\* collections, making MaxLockCalls calls in all
LockColls == {CA, CB}
NextLocks ==
    \/ New
    \/ \E t \in ConcThreads :
        \/ /\ calls[1] + calls[2] < MaxLockCalls
           /\ \/ \E c \in LockColls : CallWrite(t, c, RX, IntVal(7))
              \/ \E c \in LockColls : CallDelete(t, c, RX)
        \/ GmLock(t) \/ GmGet(t) \/ GmUnlock(t) \/ Lock(t) \/ Unlock(t)
        \/ WMkdir(t) \/ WOpen(t) \/ WWrite(t) \/ WRename(t)
        \/ DStat(t) \/ DRemove(t)

SpecLocks == Init /\ [][NextLocks]_vars

\* thread 1 writes the resource while thread 2 lists its collection
NextReadWrite ==
    \/ New
    \/ /\ calls[1] < MaxConcCalls
       /\ \E v \in EncValues : CallWrite(1, WrColl, WrRes, v)
    \/ /\ calls[2] < MaxConcCalls
       /\ CallReadAll(2, WrColl)
    \/ GmLock(1) \/ GmGet(1) \/ GmUnlock(1) \/ Lock(1) \/ Unlock(1)
    \/ WMkdir(1) \/ WOpen(1) \/ WWrite(1) \/ WRename(1)
    \/ RAStat(2) \/ RAList(2) \/ RARead(2)

SpecReadWrite == Init /\ [][NextReadWrite]_vars

\* every thread writes the same resource once, concurrently with the others
NextWriters ==
    \/ New
    \/ \E t \in Threads :
        \/ /\ calls[t] = 0
           /\ \E v \in EncValues : CallWrite(t, WrColl, WrRes, v)
        \/ GmLock(t) \/ GmGet(t) \/ GmUnlock(t) \/ Lock(t) \/ Unlock(t)
        \/ WMkdir(t) \/ WOpen(t) \/ WWrite(t) \/ WRename(t)

SpecWriters == Init /\ [][NextWriters]_vars

\* the filesystem is a tree: the parent of an existing path is a directory
TreeOK == \A p \in DOMAIN fs : p = << >> \/ IsDir(fs, Parent(p))

----------------------------------------------------------------------------
(* Properties *)

Returned(t, op) == th[t].pc = "ret" /\ th[t].op = op

ValidationErrors == {"missing collection", "missing resource"}
NotFoundErrors == {"unable to find file or directory", "ENOENT"}

\* thread t is between the Lock and the Unlock of its collection's mutex
InCritical(t) ==
    th[t].pc \in {"w_mkdir", "w_open", "w_write", "w_rename", "d_stat", "d_remove", "unlock"}

\* f without the paths at or below p
Without(f, p) == Restrict(f, { q \in DOMAIN f : ~Under(p, q) })

\* the names of the resource files of collection c: the regular files
\* <resource>.json of its directory
ResourceFiles(f, c) ==
    { n \in Children(f, CollDir(c)) :
        IsFile(f, Join(CollDir(c), n)) /\ n[Len(n)] = "json" }

\* C1: a Read(c, r) that directly follows a successful Write(c, r, v), with
\* no other operation in between, returns nil and yields v.
C1_WriteThenRead ==
    \A t \in Threads :
        (Returned(t, "Read") /\ th[t].after # NoWrite
            /\ th[t].after.c = th[t].c /\ th[t].after.r = th[t].r)
        => (th[t].err = Nil /\ th[t].out = th[t].after.v)

\* C2: when all the concurrent Writes of the same (collection, resource)
\* have returned, each returned nil and the final file holds the complete
\* serialization of the value of one of them.
AllReturned == \A t \in Threads : Returned(t, "Write")
C2_OneCompleteValue ==
    AllReturned =>
        /\ \A t \in Threads : th[t].err = Nil
        /\ IsFile(fs, FnlPath(WrColl, WrRes))
        /\ \E t \in Threads : fs[FnlPath(WrColl, WrRes)].data = Encoded(th[t].v)

C2_Witness ==
    /\ AllReturned
    /\ \E t, u \in Threads : th[t].v # th[u].v
    /\ IsFile(fs, FnlPath(WrColl, WrRes))

\* C3: in every state the final file of a (collection, resource) is absent
\* or is a regular file holding the complete serialization of a value that
\* was passed to a Write of that (collection, resource).
C3_FinalFileComplete ==
    \A c \in (SeqColls \cup ConcColls) \ {CEmpty}, r \in (SeqRes \cup ConcRes) \ {EmptyName} :
        Exists(fs, FnlPath(c, r)) =>
            /\ IsFile(fs, FnlPath(c, r))
            /\ \E v \in EncValues :
                /\ <<c, r, v>> \in written
                /\ fs[FnlPath(c, r)].data = Encoded(v)

\* a Write has truncated its temp file while the final file holds the
\* previous content, and another thread is about to read
C3_Witness ==
    \E t, u \in Threads :
        /\ th[t].pc = "w_write"
        /\ IsFile(fs, TmpPath(th[t].c, th[t].r))
        /\ fs[TmpPath(th[t].c, th[t].r)].data = << >>
        /\ IsFile(fs, FnlPath(th[t].c, th[t].r))
        /\ fs[FnlPath(th[t].c, th[t].r)].data # th[t].b
        /\ th[u].pc \in {"r_read", "ra_read"}

\* C4: two threads that are both between Lock and Unlock in Write or Delete
\* were called with different collection names.
C4_MutualExclusion ==
    \A t, u \in Threads :
        (t # u /\ InCritical(t) /\ InCritical(u)) => th[t].c # th[u].c

C4_Witness ==
    \E t, u \in Threads :
        /\ t # u
        /\ InCritical(t)
        /\ th[u].pc = "lock"
        /\ th[u].c = th[t].c
        /\ th[t].op # th[u].op

\* C5: a Write or Read with an empty collection or resource name, and a
\* ReadAll with an empty collection name, return a validation error, and
\* the filesystem, the lock registry and the locks are as before the call.
EmptyArgs(t) ==
    \/ th[t].op \in {"Write", "Read"} /\ (th[t].c = CEmpty \/ th[t].r = EmptyName)
    \/ th[t].op = "ReadAll" /\ th[t].c = CEmpty
C5_ValidationNoEffect ==
    \A t \in Threads :
        (th[t].pc = "ret" /\ EmptyArgs(t)) =>
            /\ th[t].err \in ValidationErrors
            /\ fs = th[t].fs0
            /\ mutexes = th[t].mx0
            /\ guard # t
            /\ \A h \in 1..Len(locks) : locks[h] # t

C5_Witness ==
    \E t \in Threads :
        /\ Returned(t, "Write")
        /\ th[t].c = CA /\ th[t].r = EmptyName /\ th[t].v \in EncValues
        /\ th[t].err = "missing resource"
        /\ IsDir(fs, CollDir(CA))
        /\ CA \in DOMAIN mutexes

\* C6: a Delete with an empty collection name or an empty resource name
\* returns a validation error and removes nothing.
C6_DeleteValidates ==
    \A t \in Threads :
        (Returned(t, "Delete") /\ (th[t].c = CEmpty \/ th[t].r = EmptyName)) =>
            /\ th[t].err \in ValidationErrors
            /\ fs = th[t].fs0

\* C7: Delete(c, "") of an existing collection directory returns nil,
\* removes <root>/<c> with everything in it, and leaves every path outside
\* <root>/<c> as it was.
C7_DeleteCollection ==
    \A t \in Threads :
        (Returned(t, "Delete") /\ th[t].c # CEmpty /\ th[t].r = EmptyName
            /\ IsDir(th[t].fs0, CollDir(th[t].c)))
        => (th[t].err = Nil /\ fs = Without(th[t].fs0, CollDir(th[t].c)))

C7_Witness ==
    \E t \in Threads :
        /\ Returned(t, "Delete") /\ th[t].c = CASub /\ th[t].r = EmptyName
        /\ IsFile(th[t].fs0, FnlPath(CASub, RX))
        /\ ~Exists(fs, CollDir(CASub))
        /\ IsFile(fs, FnlPath(CA, RSub))

\* C8: Delete(c, r) of an existing resource file returns nil and removes
\* exactly <root>/<c>/<r>.json, also when a directory <root>/<c>/<r> exists.
C8_DeleteOnlyTheFile ==
    \A t \in Threads :
        (Returned(t, "Delete") /\ th[t].c # CEmpty /\ th[t].r # EmptyName
            /\ IsFile(th[t].fs0, FnlPath(th[t].c, th[t].r)))
        => /\ th[t].err = Nil
           /\ fs = Restrict(th[t].fs0, DOMAIN th[t].fs0 \ {FnlPath(th[t].c, th[t].r)})

\* C9: Delete(c, r) where <root>/<c>/<r>.json does not exist, or where the
\* collection directory does not exist, returns a not-found error and
\* leaves the filesystem unchanged.
C9_DeleteMissing ==
    \A t \in Threads :
        (Returned(t, "Delete") /\ th[t].c # CEmpty
            /\ \/ th[t].r # EmptyName /\ ~Exists(th[t].fs0, FnlPath(th[t].c, th[t].r))
               \/ ~Exists(th[t].fs0, CollDir(th[t].c)))
        => (th[t].err \in NotFoundErrors /\ fs = th[t].fs0)

\* C10: ReadAll(c) on a collection directory holding k resource files
\* returns nil and exactly k blobs, the contents of those files, each the
\* serialization of a value written to that resource.
C10_ReadAllResources ==
    \A t \in Threads :
        (Returned(t, "ReadAll") /\ th[t].c # CEmpty /\ IsDir(th[t].fs0, CollDir(th[t].c)))
        => LET names == SortNames(ResourceFiles(th[t].fs0, th[t].c))
           IN  /\ th[t].err = Nil
               /\ Len(th[t].recs) = Len(names)
               /\ \A i \in 1..Len(names) :
                    /\ th[t].recs[i] = th[t].fs0[Join(CollDir(th[t].c), names[i])].data
                    /\ \E v \in EncValues :
                         /\ <<th[t].c, SubSeq(names[i], 1, Len(names[i]) - 1), v>> \in written
                         /\ th[t].recs[i] = Encoded(v)

\* C11: ReadAll(c) with a non-empty c returns a not-found error whenever
\* the directory <root>/<c> does not exist, also when a file <root>/<c>.json
\* exists.
C11_ReadAllMissing ==
    \A t \in Threads :
        (Returned(t, "ReadAll") /\ th[t].c # CEmpty
            /\ ~IsDir(th[t].fs0, CollDir(th[t].c)))
        => th[t].err \in NotFoundErrors

\* C13: Read(c, r) with non-empty names returns a not-found error whenever
\* neither <root>/<c>/<r> nor <root>/<c>/<r>.json exists.
C13_ReadMissing ==
    \A t \in Threads :
        (Returned(t, "Read") /\ th[t].c # CEmpty /\ th[t].r # EmptyName
            /\ ~Exists(th[t].fs0, Join(CollDir(th[t].c), th[t].r))
            /\ ~Exists(th[t].fs0, FnlPath(th[t].c, th[t].r)))
        => th[t].err \in NotFoundErrors

\* C12: a Write that returns an error leaves the final file as it was
\* before the call: absent, or with the same content.
C12_FailedWriteKeepsFinal ==
    \A t \in Threads :
        (Returned(t, "Write") /\ th[t].err # Nil
            /\ th[t].c # CEmpty /\ th[t].r # EmptyName)
        => /\ Exists(fs, FnlPath(th[t].c, th[t].r))
                <=> Exists(th[t].fs0, FnlPath(th[t].c, th[t].r))
           /\ Exists(fs, FnlPath(th[t].c, th[t].r))
                => fs[FnlPath(th[t].c, th[t].r)] = th[t].fs0[FnlPath(th[t].c, th[t].r)]

\* the temp-file write fails and the previous content is still there
C12_Witness ==
    \E t \in Threads :
        /\ Returned(t, "Write") /\ th[t].err = "EISDIR"
        /\ IsDir(fs, TmpPath(th[t].c, th[t].r))
        /\ IsFile(fs, FnlPath(th[t].c, th[t].r))
        /\ fs[FnlPath(th[t].c, th[t].r)].data \in { Encoded(v) : v \in EncValues }

\* C20: a Write that fails with a serialization error creates no temp file,
\* and whenever no Write on collection c is in progress and the last Write
\* to (c, r) returned nil, the temp file <root>/<c>/<r>.json.tmp does not
\* exist.
WriteInProgress(c) == \E t \in Threads : InCall(t) /\ th[t].op = "Write" /\ th[t].c = c
C20_NoTempLeft ==
    /\ \A t \in Threads :
        (Returned(t, "Write") /\ th[t].err = "json: unsupported type")
        => (IsFile(fs, TmpPath(th[t].c, th[t].r))
                => IsFile(th[t].fs0, TmpPath(th[t].c, th[t].r)))
    /\ \A k \in okW :
        ~WriteInProgress(k[1]) => ~IsFile(fs, TmpPath(k[1], k[2]))

\* a Write has returned nil and the temp file an earlier Write left, whose
\* rename had failed, is gone
C20_Witness ==
    \E t \in Threads :
        /\ Returned(t, "Write") /\ th[t].err = Nil
        /\ IsFile(th[t].fs0, TmpPath(th[t].c, th[t].r))
        /\ ~Exists(fs, TmpPath(th[t].c, th[t].r))
        /\ <<th[t].c, th[t].r>> \in okW

\* C14: New creates the root directory when it is absent and leaves the
\* filesystem unchanged when it is present; the Driver it returns has an
\* empty lock registry.
C14_NewKeepsStore ==
    [][(~opened /\ opened') =>
          /\ IsDir(fs', Root)
          /\ mutexes' = EmptyMap
          /\ Exists(fs, Root) => fs' = fs
          /\ ~Exists(fs, Root) =>
                fs' = [p \in DOMAIN fs \cup {Root} |-> IF p = Root THEN DirNode ELSE fs[p]]
      ]_vars

\* New has returned on a store that held resource files already
C14_Witness ==
    /\ opened
    /\ \A t \in Threads : calls[t] = 0
    /\ mutexes = EmptyMap
    /\ IsFile(fs, FnlPath(CASub, RX))
    /\ IsFile(fs, FnlPath(CA, RSub))

\* C15: the registry never replaces or removes an entry, and every thread
\* that has looked a name up holds the handle registered for that name.
HasHandle(t) == th[t].pc \in {"gm_unlock", "lock"} \/ InCritical(t)
C15_OneHandlePerName ==
    /\ [](\A t \in Threads :
            HasHandle(t) => (th[t].c \in DOMAIN mutexes /\ th[t].m = mutexes[th[t].c]))
    /\ [][\A c \in DOMAIN mutexes : c \in DOMAIN mutexes' /\ mutexes'[c] = mutexes[c]]_vars

\* two threads hold the same handle for the same name, and a second name
\* is registered
C15_Witness ==
    \E t, u \in Threads :
        /\ t # u /\ HasHandle(t) /\ HasHandle(u)
        /\ th[t].c = th[u].c /\ th[t].m = th[u].m
        /\ Cardinality(DOMAIN mutexes) = 2

\* C16: Driver.Mutex is held only during the lookup of getOrCreateMutext,
\* and a thread that waits for a collection lock waits for a thread that was
\* called with the same collection name.
C16_GuardOnlyForLookup ==
    /\ \A t \in Threads : guard = t => th[t].pc \in {"gm_get", "gm_unlock"}
    /\ \A t \in Threads :
        (th[t].pc = "lock" /\ locks[th[t].m] # NoThread)
        => (InCritical(locks[th[t].m]) /\ th[locks[th[t].m]].c = th[t].c)

\* a Write on one collection and a Write or Delete on another are both in
\* their critical sections
C16_Witness ==
    \E t, u \in Threads :
        /\ InCritical(t) /\ InCritical(u)
        /\ th[t].op = "Write" /\ th[t].c = CA /\ th[u].c = CB
        /\ th[t].pc = "w_write" /\ th[u].pc \in {"w_write", "d_remove"}
        /\ guard = NoThread

\* C17: every step that creates, changes or removes a path at or below
\* <root>/<c> is taken by a thread that holds the lock registered for
\* collection c.
Changed(p) ==
    \/ Exists(fs, p) /\ ~Exists(fs', p)
    \/ ~Exists(fs, p) /\ Exists(fs', p)
    \/ Exists(fs, p) /\ Exists(fs', p) /\ fs[p] # fs'[p]
HoldsLockOf(t, c) ==
    c \in DOMAIN mutexes /\ locks[mutexes[c]] = t
C17_MutationUnderLock ==
    [][opened =>
        \A c \in (SeqColls \cup ConcColls) \ {CEmpty} :
            (\E p \in DOMAIN fs \cup DOMAIN fs' : Under(CollDir(c), p) /\ Changed(p))
            => \E t \in Threads : th'[t] # th[t] /\ HoldsLockOf(t, c)
      ]_vars

\* C18: a ReadAll(c) of an existing collection directory that runs while
\* Writes to c run returns nil, and every blob it returns is the complete
\* serialization of a value written to a resource of c, one blob per
\* resource at most.
C18_ReadAllDuringWrite ==
    \A t \in Threads :
        (Returned(t, "ReadAll") /\ IsDir(th[t].fs0, CollDir(th[t].c)))
        => /\ th[t].err = Nil
           /\ \A i \in 1..Len(th[t].recs) :
                \E w \in written : w[1] = th[t].c /\ th[t].recs[i] = Encoded(w[3])
           /\ Len(th[t].recs) <= Cardinality({ w[2] : w \in { w \in written : w[1] = th[t].c } })

\* C19: every call that has started returns, and a thread that is not in a
\* call holds neither Driver.Mutex nor a collection lock.
C19_CallsReturn ==
    /\ \A t \in Threads : InCall(t) ~> ~InCall(t)
    /\ [](\A t \in Threads :
            ~InCall(t) => (guard # t /\ \A h \in 1..Len(locks) : locks[h] # t))

\* a Delete has returned its not-found error and another thread holds the
\* lock it had taken
C19_Witness ==
    \E t, u \in Threads :
        /\ t # u
        /\ Returned(t, "Delete") /\ th[t].err # Nil /\ th[t].m > 0
        /\ locks[th[t].m] = u
        /\ InCritical(u)

====
